---- MODULE Spec2Model ----
(***************************************************************************)
(* Model of the zo-local-memory client (src/src/local_memory_client.py)    *)
(* and of the session layer built on it (src/src/memory_integration.py).   *)
(*                                                                         *)
(* The Turso table "memories" is the variable memories, a set of rows.     *)
(* The two remote services (the Ollama embedding endpoint and the Turso    *)
(* HTTP endpoint) are the environment: every call to one of them draws its *)
(* outcome from the set of answers the service can give.                   *)
(*                                                                         *)
(* Numbers: a cosine distance d is held as the integer 100 * d and a       *)
(* similarity s as 100 * s; embeddings are integer vectors of norm 5, so   *)
(* that 100 * (1 - cos) = 100 - 4 * dot is exact.                          *)
(***************************************************************************)
EXTENDS Integers, Sequences, FiniteSets, TLC

VARIABLES memories, nextId, last, stored

vars == <<memories, nextId, last, stored>>

\* ------------------------------------------------------------------ bounds

\* Number of ids uuid4 hands out in one behaviour (ids are 1..MaxId).
MaxId == 2
\* search is called with limit in 1..MaxLimit.
MaxLimit == 2
\* A session starts on a table of at most SessionMemories records.
SessionMemories == 3
\* At most MaxWrites writes by other clients land while a session initializes.
MaxWrites == 2

\* ------------------------------------------------------- program constants

\* local_memory_client.py:83  len(text) > 100000
MaxTextLen == 100000

\* ------------------------------------------------------------ input domains

Agents == {"fork-main", "other"}

\* The default agent of LocalMemoryClient() (no MEMORY_BOX_AGENT_ID set).
DefaultAgent == "fork-main"

\* A text is its content s and its length n = len(text).
PyLen(text) == text.n

\* Python values of the metadata argument.  None is NoMeta; a dict is the
\* sequence of its entries in insertion order, no key twice; a key is
\* <<type, spelling>> (a str key "1" and an int key 1 are different keys of a
\* Python dict).
NoMeta == [none |-> TRUE]

PyDict(entries) == [dict |-> entries]

StrKey(k) == <<"str", k>>

IntKey(k) == <<"int", k>>

EmptyDict == PyDict(<<>>)

MetaPreference == PyDict(<<[k |-> StrKey("context_type"), v |-> "preference"]>>)

MetaDecision == PyDict(<<[k |-> StrKey("context_type"), v |-> "decision"]>>)

MetaBridge == PyDict(<<[k |-> StrKey("context_type"), v |-> "conversation_bridge"]>>)

MetaIntKey == PyDict(<<[k |-> IntKey("1"), v |-> "a"]>>)

\* {1: "a", "1": "b"}: an int key and the str key of the same spelling.
MetaClashingKeys ==
    PyDict(<<[k |-> IntKey("1"), v |-> "a"], [k |-> StrKey("1"), v |-> "b"]>>)

IsMapping(metadata) == "dict" \in DOMAIN metadata

\* ------------------------------------------------------------------- json

\* json.dumps(dict): the pairs in the dict's order, every key written as a
\* JSON string, so an int key 1 is written "1" (and the text can name a key
\* twice).  The JSON text is held as the sequence of its pairs.
JsonDumps(d) ==
    [json |-> [i \in DOMAIN d.dict |->
                 [k |-> StrKey(d.dict[i].k[2]), v |-> d.dict[i].v]]]

\* json.loads(text): the object read back as a Python dict with str keys; a
\* key named more than once stands where it was first named and keeps the
\* value it was last given.
JsonLoads(text) ==
    LET pairs == text.json
        first == SelectSeq([i \in DOMAIN pairs |-> i],
                           LAMBDA i : \A j \in 1..(i - 1) : pairs[j].k # pairs[i].k)
        lastOf(key) == CHOOSE j \in DOMAIN pairs :
                          /\ pairs[j].k = key
                          /\ \A m \in DOMAIN pairs : m > j => pairs[m].k # key
    IN PyDict([n \in DOMAIN first |->
                 [k |-> pairs[first[n]].k, v |-> pairs[lastOf(pairs[first[n]].k)].v]])

\* Python truthiness of the metadata argument: None and {} are falsy.
Truthy(metadata) == IsMapping(metadata) /\ Len(metadata.dict) > 0

\* The metadata argument ignored.
MetaJsonEmpty(metadata) == [json |-> <<>>]

\* local_memory_client.py:94  json.dumps(metadata) if metadata else "{}"
MetaJson(metadata) == IF Truthy(metadata) THEN JsonDumps(metadata) ELSE [json |-> <<>>]

\* local_memory_client.py:179  json.loads(row[2]) if row[2] else {}
\* (row[2] is a non-empty JSON text for every row store inserted)
RowMeta(column) == JsonLoads(column)

\* local_memory_client.py:63-65  unix seconds -> ISO 8601 text
FormatTimestamp(unix_ts) == [iso |-> unix_ts]

\* ------------------------------------------------------------- embeddings

\* A Python value an embedding can be: a list of numbers, or None.
Vec(x, y) == [py |-> "list", items |-> <<x, y>>]

\* None, json.dumps of which is "null".
NoneValue == [py |-> "None", items |-> <<>>]

\* [], json.dumps of which is "[]".
EmptyList == [py |-> "list", items |-> <<>>]

\* A list the engine can take a distance from.
IsVector(e) == e.py = "list" /\ Len(e.items) > 0

\* The embedding model, a fixed function of the text (nomic-embed-text).
OllamaModel(text) ==
    CASE text.s = "alpha" -> Vec(4, 3)
      [] text.s = "beta"  -> Vec(5, 0)
      [] text.s = "gamma" -> Vec(0, 5)
      [] text.s = "full"  -> Vec(-4, -3)
      [] text.s = "huge"  -> Vec(-5, 0)
      [] text.s = "delta" -> Vec(-3, -4)
      [] text.s = "CONVERSATION-BRIDGE recent session momentum pending" -> Vec(5, 0)
      [] text.s = "PREFERENCE PATTERN PRINCIPLE user preferences habits" -> Vec(3, 4)
      [] text.s = "PROJECT active current working building status" -> Vec(-5, 0)
      [] text.s = "CONSCIOUSNESS pattern observation cognitive evolution" -> Vec(0, -5)
      [] OTHER -> Vec(0, -5)

Dot(u, v) == u.items[1] * v.items[1] + u.items[2] * v.items[2]

\* vector_distance_cos(embedding, q), times 100.
VectorDistanceCos(u, v) == 100 - 4 * Dot(u, v)

\* ------------------------------------------------------------ Ollama service

\* How one POST /api/embed can end:
\*   up     the answer carries the embedding of the text
\*   down   the request fails (timeout, non-2xx), or the body is not JSON, has
\*          no "embeddings" or an empty one: _embed re-raises
\*   null   the answer is {"embeddings": [null]}: _embed returns None
\*   empty  the answer is {"embeddings": [[]]}: _embed returns []
OllamaKinds == {"up", "down", "null", "empty"}

\* local_memory_client.py:33-48  _embed returns result["embeddings"][0] as it
\* is, and re-raises every failure.
Embed(text, answer) ==
    CASE answer = "up"    -> [raised |-> FALSE, value |-> OllamaModel(text)]
      [] answer = "null"  -> [raised |-> FALSE, value |-> NoneValue]
      [] answer = "empty" -> [raised |-> FALSE, value |-> EmptyList]
      [] OTHER            -> [raised |-> TRUE,  value |-> NoneValue]

\* ------------------------------------------------------------- Turso service

Min(a, b) == IF a <= b THEN a ELSE b

Range(f) == { f[i] : i \in DOMAIN f }

\* ORDER BY key ASC LIMIT n over the set S, key being the sort key of each row
\* of S: any arrangement the engine may return (rows with equal keys come in
\* any order).
OrderedLimit(S, key, n) ==
    LET k == Min(n, Cardinality(S))
    IN { s \in [1..k -> S] :
           /\ \A i, j \in 1..k : i # j => s[i] # s[j]
           /\ \A i \in 1..k : \A j \in 1..k : i < j => key[s[i]] <= key[s[j]]
           /\ \A r \in S \ Range(s) : \A i \in 1..k : key[s[i]] <= key[r] }

NoStatement == [q |-> "NONE"]

\* local_memory_client.py:100-111
InsertStatement(memory_id, agent_id, text, embedding, meta_json, timestamp) ==
    [q |-> "INSERT",
     row |-> [id |-> memory_id, agent_id |-> agent_id, content |-> text,
              embedding |-> embedding, metadata |-> meta_json,
              created_at |-> timestamp, updated_at |-> timestamp]]

\* local_memory_client.py:162-165
SelectChronological(agent_id, limit) ==
    [q |-> "SELECT_CHRONOLOGICAL", agent_id |-> agent_id, limit |-> limit]

\* local_memory_client.py:192-195
SelectVector(vector_data, agent_id, limit) ==
    [q |-> "SELECT_VECTOR", vector |-> vector_data, agent_id |-> agent_id,
     limit |-> limit]

\* local_memory_client.py:241-244
SelectById(memory_id, agent_id) ==
    [q |-> "SELECT_BY_ID", id |-> memory_id, agent_id |-> agent_id]

\* local_memory_client.py:293-296
SelectEmbedding(memory_id, agent_id) ==
    [q |-> "SELECT_EMBEDDING", id |-> memory_id, agent_id |-> agent_id]

\* The default agent used in place of self.agent_id.
DeleteStatementDefaultAgent(memory_id, agent_id) ==
    [q |-> "DELETE", id |-> memory_id, agent_id |-> "fork-main"]

\* local_memory_client.py:268-271
DeleteStatement(memory_id, agent_id) ==
    [q |-> "DELETE", id |-> memory_id, agent_id |-> agent_id]

\* The WHERE agent_id = ? clause left out.
AgentRowsUnfiltered(mem, agent_id) == mem

AgentRows(mem, agent_id) == { r \in mem : r.agent_id = agent_id }

\* DELETE matching on the id alone.
SqlEffectDeleteById(stmt, mem) ==
    CASE stmt.q = "INSERT" -> mem \cup {stmt.row}
      [] stmt.q = "DELETE" -> { r \in mem : r.id # stmt.id }
      [] OTHER -> mem

\* The table after the statement has run.
SqlEffect(stmt, mem) ==
    CASE stmt.q = "INSERT" -> mem \cup {stmt.row}
      [] stmt.q = "DELETE" ->
            { r \in mem : ~(r.id = stmt.id /\ r.agent_id = stmt.agent_id) }
      [] OTHER -> mem

\* ORDER BY created_at ASC.
CreatedAtAscending(r) == r.created_at

NegCreatedAt(r) == 0 - r.created_at

ChronoRow(r) == <<r.id, r.content, r.metadata, r.created_at>>

\* Whether the engine can answer the statement with rows on the table mem: a
\* distance is taken between vectors only, so a vector search whose query
\* value, or one of whose agent's rows' embedding, is not a vector is
\* rejected, unless the agent has no row to take a distance for.  (An INSERT
\* of such a value the engine may accept or reject.)
Answerable(stmt, mem) ==
    stmt.q = "SELECT_VECTOR" =>
        \/ AgentRows(mem, stmt.agent_id) = {}
        \/ /\ IsVector(stmt.vector)
           /\ \A r \in AgentRows(mem, stmt.agent_id) : IsVector(r.embedding)

\* The row sets the engine may answer the statement with, on the table mem.
SqlRows(stmt, mem) ==
    CASE stmt.q = "SELECT_CHRONOLOGICAL" ->
            LET S == AgentRows(mem, stmt.agent_id)
            IN { [i \in DOMAIN s |-> ChronoRow(s[i])] :
                 s \in OrderedLimit(S, [r \in S |-> NegCreatedAt(r)],
                                    stmt.limit) }
      [] stmt.q = "SELECT_VECTOR" /\ Answerable(stmt, mem) ->
            LET S == AgentRows(mem, stmt.agent_id)
                Distance(r) == VectorDistanceCos(r.embedding, stmt.vector)
            IN { [i \in DOMAIN s |->
                    <<s[i].id, s[i].content, s[i].metadata, s[i].created_at,
                      Distance(s[i])>>] :
                 s \in OrderedLimit(S, [r \in S |-> Distance(r)],
                                    stmt.limit) }
      [] stmt.q = "SELECT_BY_ID" ->
            LET S == { r \in mem : r.id = stmt.id /\ r.agent_id = stmt.agent_id }
            IN { [i \in DOMAIN s |-> ChronoRow(s[i])] :
                 s \in OrderedLimit(S, [r \in S |-> 0], Cardinality(S)) }
      [] stmt.q = "SELECT_EMBEDDING" ->
            LET S == { r \in mem : r.id = stmt.id /\ r.agent_id = stmt.agent_id }
            IN { [i \in DOMAIN s |-> <<s[i].embedding>>] :
                 s \in OrderedLimit(S, [r \in S |-> 0], Cardinality(S)) }
      [] OTHER -> { <<>> }

\* How one POST to Turso can end:
\*   rows         the statement ran; the response carries its result rows
\*   error        the statement was rejected; the response carries an error entry
\*   unavailable  the request failed (connection error, timeout) before the
\*                statement ran: urlopen raises
\*   lost         the statement ran and the answer did not arrive within the
\*                timeout: urlopen raises
\*   empty        the response is an empty list: no entry for the statement
\*   nofield      the entry for the statement has neither "results" nor "error"
\* The table changes when the statement ran: kinds rows and lost.
TursoKinds == {"rows", "error", "unavailable", "lost", "empty", "nofield"}

\* The engine ran the statement.
Applied(kind) == kind \in {"rows", "lost"}

\* The kinds of answer to the statement on the table mem.
AnswerKinds(stmt, mem) ==
    IF Answerable(stmt, mem) THEN TursoKinds ELSE TursoKinds \ {"rows"}

\* A JSON object of the response: the keys it has, and the rows under
\* results.rows when it has them.
ResultEntry(keys, rows) == [has |-> keys, rows |-> rows]

\* local_memory_client.py:50-61  one call of _turso_execute: whether it raised,
\* the parsed response, and the table afterwards.
TursoExecute(stmt, mem, kind, rows) ==
    CASE kind = "rows" ->
            [raised |-> FALSE,
             value |-> <<ResultEntry({"results", "rows"}, rows)>>,
             after |-> SqlEffect(stmt, mem)]
      [] kind = "error" ->
            [raised |-> FALSE, value |-> <<ResultEntry({"error"}, <<>>)>>,
             after |-> mem]
      [] kind = "unavailable" ->
            [raised |-> TRUE, value |-> <<>>, after |-> mem]
      [] kind = "lost" ->
            [raised |-> TRUE, value |-> <<>>, after |-> SqlEffect(stmt, mem)]
      [] kind = "empty" ->
            [raised |-> FALSE, value |-> <<>>, after |-> mem]
      [] OTHER ->
            [raised |-> FALSE, value |-> <<ResultEntry({}, <<>>)>>,
             after |-> mem]

\* `results and "error" in results[0]`
HasError(results) == Len(results) > 0 /\ "error" \in results[1].has

\* `results[0].get("results", {}).get("rows", [])`, for a non-empty results
GetRows(results) ==
    IF {"results", "rows"} \subseteq results[1].has THEN results[1].rows ELSE <<>>

\* ------------------------------------------------------------- client calls

PyNone == [none |-> TRUE]

IsNone(x) == "none" \in DOMAIN x

EmptyText == [s |-> "", n |-> 0]

\* `query is None` in place of `not query`.
NotQueryNoneOnly(query) == IsNone(query)

\* Python `not query`: None and "" are falsy.
NotQuery(query) == IsNone(query) \/ PyLen(query) = 0

\* local_memory_client.py:157
ValidMode(mode) == mode \in {"vector", "chronological", "hybrid"}

\* The limit off by one.
TextTooLongOffByOne(text) == PyLen(text) > MaxTextLen + 1

\* local_memory_client.py:83
TextTooLong(text) == PyLen(text) > MaxTextLen

\* What a call hands back before it reaches Turso: an exception raised, or the
\* statement to execute; embedCalls counts the requests made to Ollama.
Raised(outcome, embedCalls) ==
    [raised |-> TRUE, outcome |-> outcome, embedCalls |-> embedCalls,
     stmt |-> NoStatement]

Issue(stmt, embedCalls) ==
    [raised |-> FALSE, outcome |-> "ok", embedCalls |-> embedCalls, stmt |-> stmt]

\* A finished call: the exception it raised ("ok" when none) and its value.
Done(outcome, value) == [outcome |-> outcome, value |-> value]

NoValue == <<>>

\* local_memory_client.py:83-111  store, up to the statement it builds
StorePrepare(agent_id, text, metadata, answer, memory_id, timestamp) ==
    IF TextTooLong(text) THEN Raised("ValueError", 0)
    ELSE LET embedding == Embed(text, answer)
         IN IF embedding.raised THEN Raised("OllamaError", 1)
            ELSE Issue(InsertStatement(memory_id, agent_id, text, embedding.value,
                                       MetaJson(metadata), timestamp), 1)

\* local_memory_client.py:113-123  store, from the response on
StoreFinish(text, memory_id, timestamp, ans) ==
    IF ans.raised THEN Done("TursoExecError", NoValue)
    ELSE IF HasError(ans.value) THEN Done("TursoStoreError", NoValue)
    ELSE Done("ok", [id |-> memory_id, text |-> text,
                     created_at |-> FormatTimestamp(timestamp), tokens_used |-> 0])

\* local_memory_client.py:157-195  search, up to the statement it builds
SearchPrepare(agent_id, query, limit, mode, answer) ==
    IF ~ValidMode(mode) THEN Raised("ValueError", 0)
    ELSE IF mode = "chronological"
         THEN Issue(SelectChronological(agent_id, limit), 0)
    ELSE IF NotQuery(query) THEN Raised("ValueError", 0)
    ELSE LET query_embedding == Embed(query, answer)
         IN IF query_embedding.raised THEN Raised("OllamaError", 1)
            ELSE Issue(SelectVector(query_embedding.value, agent_id, limit), 1)

\* local_memory_client.py:176-182
ChronologicalResult(row) ==
    [id |-> row[1], text |-> row[2], metadata |-> RowMeta(row[3]),
     created_at |-> FormatTimestamp(row[4]), similarity |-> 100]

\* The distance returned as the similarity.
VectorResultDistance(row) ==
    [id |-> row[1], text |-> row[2], metadata |-> RowMeta(row[3]),
     created_at |-> FormatTimestamp(row[4]), similarity |-> row[5]]

\* local_memory_client.py:207-216
VectorResult(row) ==
    [id |-> row[1], text |-> row[2], metadata |-> RowMeta(row[3]),
     created_at |-> FormatTimestamp(row[4]), similarity |-> 100 - row[5]]

\* local_memory_client.py:174-182 and 204-216
FormatResults(mode, rows) ==
    [i \in DOMAIN rows |->
        IF mode = "chronological" THEN ChronologicalResult(rows[i])
                                  ELSE VectorResult(rows[i])]

\* local_memory_client.py:167-225  search, from the response on
SearchFinish(agent_id, mode, ans) ==
    IF ans.raised THEN Done("TursoExecError", NoValue)
    ELSE IF HasError(ans.value) THEN Done("TursoStoreError", NoValue)
    ELSE IF Len(ans.value) = 0 THEN Done("IndexError", NoValue)
    ELSE Done("ok", [results |-> FormatResults(mode, GetRows(ans.value)),
                     namespace |-> <<"agent_", agent_id>>, mode |-> mode])

\* local_memory_client.py:246-264  get, from the response on
GetFinish(memory_id, ans) ==
    IF ans.raised THEN Done("TursoExecError", NoValue)
    ELSE IF HasError(ans.value) THEN Done("TursoStoreError", NoValue)
    ELSE IF Len(ans.value) = 0 THEN Done("IndexError", NoValue)
    ELSE LET rows == GetRows(ans.value)
         IN IF Len(rows) = 0 THEN Done("NotFound", NoValue)
            ELSE Done("ok", [memory |->
                    [id |-> rows[1][1], text |-> rows[1][2],
                     metadata |-> RowMeta(rows[1][3]),
                     created_at |-> FormatTimestamp(rows[1][4])]])

\* local_memory_client.py:273-276  delete, from the response on
DeleteFinish(ans) ==
    IF ans.raised THEN Done("TursoExecError", NoValue)
    ELSE IF HasError(ans.value) THEN Done("TursoStoreError", NoValue)
    ELSE Done("ok", NoValue)

\* A text-based search answered in place of the missing embedding lookup.
GetRelatedFallback(memory_id, ans) ==
    IF ans.raised THEN Done("TursoExecError", NoValue)
    ELSE IF HasError(ans.value) THEN Done("TursoStoreError", NoValue)
    ELSE IF Len(ans.value) = 0 THEN Done("IndexError", NoValue)
    ELSE IF Len(GetRows(ans.value)) = 0 THEN Done("NotFound", NoValue)
    ELSE Done("ok", [results |-> <<>>])

\* local_memory_client.py:298-310  get_related, from the response on
GetRelatedFinish(memory_id, ans) ==
    IF ans.raised THEN Done("TursoExecError", NoValue)
    ELSE IF HasError(ans.value) THEN Done("TursoStoreError", NoValue)
    ELSE IF Len(ans.value) = 0 THEN Done("IndexError", NoValue)
    ELSE IF Len(GetRows(ans.value)) = 0 THEN Done("NotFound", NoValue)
    ELSE Done("NotImplementedError", NoValue)

\* ------------------------------------------------------------ session layer

\* memory_integration.py:113-117, 124-128, 135-139, 146-150: the thresholds
\* (times 100) and limits of the four retrieval passes.
BridgesMinSimilarity == 60

BridgesLimit == 3

PrefsMinSimilarity == 65

PrefsLimit == 5

ProjectsMinSimilarity == 65

ProjectsLimit == 3

ConsciousnessMinSimilarity == 65

ConsciousnessLimit == 3

QueryText(string) == [s |-> string, n |-> Len(string)]

\* memory_integration.py:112-154: the passes of initialize_session, in the
\* order it runs them, each with the heading it puts before its memories.
Passes ==
    << [query |-> QueryText("CONVERSATION-BRIDGE recent session momentum pending"),
        min_similarity |-> BridgesMinSimilarity, limit |-> BridgesLimit,
        heading |-> "## Recent Session Context\n"],
       [query |-> QueryText("PREFERENCE PATTERN PRINCIPLE user preferences habits"),
        min_similarity |-> PrefsMinSimilarity, limit |-> PrefsLimit,
        heading |-> "## User Preferences & Patterns\n"],
       [query |-> QueryText("PROJECT active current working building status"),
        min_similarity |-> ProjectsMinSimilarity, limit |-> ProjectsLimit,
        heading |-> "## Active Projects\n"],
       [query |-> QueryText("CONSCIOUSNESS pattern observation cognitive evolution"),
        min_similarity |-> ConsciousnessMinSimilarity, limit |-> ConsciousnessLimit,
        heading |-> "## Cognitive Patterns\n"] >>

PassIndex == DOMAIN Passes

\* What the two services do during one client call: the kind of Ollama's answer, and
\* the kind and rows of Turso's answer.
Service(answer, kind, rows) == [ollama |-> answer, kind |-> kind, rows |-> rows]

\* local_memory_client.py:155-225  one whole search call on the table mem
SearchCall(agent_id, query, limit, mode, svc, mem) ==
    LET prep == SearchPrepare(agent_id, query, limit, mode, svc.ollama)
    IN IF prep.raised THEN Done(prep.outcome, NoValue)
       ELSE SearchFinish(agent_id, mode,
                         TursoExecute(prep.stmt, mem, svc.kind, svc.rows))

\* The threshold applied with > in place of >=.
RelevantStrict(results, min_similarity) ==
    SelectSeq(results, LAMBDA m : m.similarity > min_similarity)

\* memory_integration.py:31-34
Relevant(results, min_similarity) ==
    SelectSeq(results, LAMBDA m : m.similarity >= min_similarity)

\* retrieve_memories without its try/except.
RetrieveMemoriesNoCatch(search, min_similarity) ==
    IF search.outcome = "ok"
    THEN LET relevant == Relevant(search.value.results, min_similarity)
         IN [raised |-> FALSE, found |-> Len(relevant) > 0, memories |-> relevant,
             error |-> FALSE]
    ELSE [raised |-> TRUE, found |-> FALSE, memories |-> <<>>, error |-> TRUE]

\* memory_integration.py:13-43  retrieve_memories; search is the outcome of
\* its client.search(query, limit=limit, mode="vector").  raised: whether an
\* exception leaves retrieve_memories.
RetrieveMemories(search, min_similarity) ==
    IF search.outcome = "ok"
    THEN LET relevant == Relevant(search.value.results, min_similarity)
         IN [raised |-> FALSE, found |-> Len(relevant) > 0, memories |-> relevant,
             error |-> FALSE]
    ELSE [raised |-> FALSE, found |-> FALSE, memories |-> <<>>, error |-> TRUE]

\* memory_integration.py:91-92  metadata.get("context_type", "general")
ContextType(metadata) ==
    LET hits == SelectSeq(metadata.dict, LAMBDA e : e.k = StrKey("context_type"))
    IN IF Len(hits) = 0 THEN "general" ELSE hits[1].v

\* memory_integration.py:72-98  format_memories_for_context, for a non-empty
\* list: the block's heading and one entry per memory, numbered from 1.
FormatMemoriesForContext(mems) ==
    [kind |-> "memories", text |-> "## Relevant Memories\n\n",
     entries |-> [i \in DOMAIN mems |->
                    [number |-> i, similarity |-> mems[i].similarity,
                     id |-> mems[i].id,
                     type |-> ContextType(mems[i].metadata),
                     text |-> mems[i].text]]]

Heading(text) == [kind |-> "heading", text |-> text, entries |-> <<>>]

FreshStart ==
    <<[kind |-> "sentinel",
       text |-> "No initialization memories found. Fresh start.",
       entries |-> <<>>]>>

\* The heading appended whether or not the pass found anything.
PassPartsAlways(pass, retrieved) ==
    IF retrieved.found
    THEN <<Heading(pass.heading), FormatMemoriesForContext(retrieved.memories)>>
    ELSE <<Heading(pass.heading)>>

\* memory_integration.py:119-121 (and 130-132, 141-143, 152-154): what one
\* pass appends to context_parts.
PassParts(pass, retrieved) ==
    IF retrieved.found
    THEN <<Heading(pass.heading), FormatMemoriesForContext(retrieved.memories)>>
    ELSE <<>>

\* memory_integration.py:110-154  context_parts after the four passes
ContextParts(retrieved) ==
    PassParts(Passes[1], retrieved[1]) \o PassParts(Passes[2], retrieved[2])
      \o PassParts(Passes[3], retrieved[3]) \o PassParts(Passes[4], retrieved[4])

\* memory_integration.py:156-159  the string returned, held as the parts joined
Digest(context_parts) ==
    IF Len(context_parts) > 0 THEN context_parts ELSE FreshStart

\* memory_formatting.py:39  datetime.utcnow().strftime("%Y-%m-%d"), the day
\* of the run.
Timestamp == [s |-> "2025-12-09", n |-> 10]

\* A str argument is its content s, its length n and, for a conversation id,
\* tail = its last eight characters.
\* memory_integration.py:179  f"Session {conversation_id[-8:]}"
Topic(conversation_id) ==
    [s |-> "Session " \o conversation_id.tail,
     n |-> 8 + Min(8, conversation_id.n)]

\* memory_integration.py:180-187  the conversation_context of close_session
ConversationContext(conversation_id, status, momentum, pending, retrieval_markers) ==
    [user_name |-> "fork", status |-> status, momentum |-> momentum,
     pending |-> pending, retrieval_markers |-> retrieval_markers,
     conversation_id |-> conversation_id]

\* f-string concatenation of two texts.
Cat(a, b) == [s |-> a.s \o b.s, n |-> a.n + b.n]

\* A literal of the source.
Lit(string) == [s |-> string, n |-> Len(string)]

\* memory_formatting.py:75-91  the text of a conversation_bridge; every key
\* the branch tests for is in the context close_session passes.
FormattedBridge(topic, context) ==
    LET header == Cat(Cat(Lit("CONVERSATION-BRIDGE - "), topic), Lit(": "))
        status == Cat(Cat(Lit("STATUS: "), context.status), Lit(". "))
        momentum == Cat(Cat(Lit("MOMENTUM: "), context.momentum), Lit(". "))
        pending == Cat(Cat(Lit("PENDING: "), context.pending), Lit(". "))
        markers == Cat(Cat(Lit("RETRIEVAL-MARKERS: "), context.retrieval_markers),
                       Lit(". "))
        closed == Cat(Cat(Lit("Session closed "), Timestamp), Lit("."))
    IN Cat(Cat(Cat(Cat(Cat(header, status), momentum), pending), markers), closed)

\* The metadata with the fallback type in place of memory_type.
BuildMetadataGeneral(memory_type, topic, context) ==
    PyDict(<< [k |-> StrKey("context_type"), v |-> "general"],
              [k |-> StrKey("topic"), v |-> topic.s],
              [k |-> StrKey("timestamp"), v |-> Timestamp.s],
              [k |-> StrKey("conversation_id"), v |-> context.conversation_id.s],
              [k |-> StrKey("status"), v |-> context.status.s] >>)

\* memory_formatting.py:129-144  the metadata built for memory_type, from a
\* context holding conversation_id and status but no related_to, priority or
\* category.
BuildMetadata(memory_type, topic, context) ==
    PyDict(<< [k |-> StrKey("context_type"), v |-> memory_type],
              [k |-> StrKey("topic"), v |-> topic.s],
              [k |-> StrKey("timestamp"), v |-> Timestamp.s],
              [k |-> StrKey("conversation_id"), v |-> context.conversation_id.s],
              [k |-> StrKey("status"), v |-> context.status.s] >>)

\* memory_formatting.py:11-146  format_memory_for_storage(raw_content,
\* "conversation_bridge", topic, context)
FormatMemoryForStorage(raw_content, topic, context) ==
    [text |-> FormattedBridge(topic, context),
     metadata |-> BuildMetadata("conversation_bridge", topic, context)]

\* local_memory_client.py:67-123  one whole store call on the table mem, with
\* the id uuid4 hands out and the time of the call.
StoreCall(agent_id, text, metadata, svc, memory_id, timestamp, mem) ==
    LET prep == StorePrepare(agent_id, text, metadata, svc.ollama, memory_id,
                             timestamp)
        ans == TursoExecute(prep.stmt, mem, svc.kind, <<>>)
        fin == StoreFinish(text, memory_id, timestamp, ans)
    IN [prep |-> prep, fin |-> fin,
        outcome |-> IF prep.raised THEN prep.outcome ELSE fin.outcome,
        value |-> IF prep.raised THEN NoValue ELSE fin.value,
        after |-> IF prep.raised THEN mem ELSE ans.after]

\* store_memory without its try/except.
StoreMemoryNoCatch(store) ==
    IF store.outcome = "ok"
    THEN [raised |-> FALSE, success |-> TRUE, memory_id |-> store.value.id,
          created_at |-> store.value.created_at, error |-> "none"]
    ELSE [raised |-> TRUE, success |-> FALSE, memory_id |-> 0,
          created_at |-> FormatTimestamp(0), error |-> store.outcome]

\* memory_integration.py:46-69  store_memory; store is the outcome of its
\* client.store(text, metadata=metadata).  raised: whether an exception
\* leaves store_memory; error: str(e), held as the kind of the exception.
StoreMemory(store) ==
    IF store.outcome = "ok"
    THEN [raised |-> FALSE, success |-> TRUE, memory_id |-> store.value.id,
          created_at |-> store.value.created_at, error |-> "none"]
    ELSE [raised |-> FALSE, success |-> FALSE, memory_id |-> 0,
          created_at |-> FormatTimestamp(0), error |-> store.outcome]

\* memory_integration.py:162-190  close_session on the table mem
CloseSessionCall(conversation_id, status, momentum, pending, retrieval_markers, svc, memory_id, timestamp, mem) ==
    LET formatted == FormatMemoryForStorage(
                        status, Topic(conversation_id),
                        ConversationContext(conversation_id, status, momentum,
                                            pending, retrieval_markers))
        store == StoreCall(DefaultAgent, formatted.text, formatted.metadata,
                           svc, memory_id, timestamp, mem)
    IN [text |-> formatted.text, metadata |-> formatted.metadata,
        store |-> store, result |-> StoreMemory(store)]

\* ------------------------------------------------------------------ inputs

\* The (text, metadata) arguments store is called with.
StoreInputs ==
    { <<[s |-> "alpha", n |-> 5], NoMeta>>,
      <<[s |-> "beta", n |-> 4], MetaPreference>>,
      <<[s |-> "gamma", n |-> 5], MetaIntKey>>,
      <<[s |-> "delta", n |-> 5], MetaClashingKeys>>,
      <<[s |-> "full", n |-> MaxTextLen], EmptyDict>>,
      <<[s |-> "huge", n |-> MaxTextLen + 1], MetaPreference>> }

\* The second agent stores one kind of record.
StoreInputsOf(agent_id) ==
    IF agent_id = DefaultAgent THEN StoreInputs
    ELSE { input \in StoreInputs : input[1].s = "alpha" }

\* The (query, mode) arguments search is called with.
SearchInputs ==
    { <<PyNone, "vector">>, <<EmptyText, "hybrid">>,
      <<[s |-> "alpha", n |-> 5], "vector">>,
      <<[s |-> "gamma", n |-> 5], "hybrid">>,
      <<PyNone, "chronological">>,
      <<[s |-> "alpha", n |-> 5], "fuzzy">> }

Ids == 1..MaxId

Limits == 1..MaxLimit

\* ------------------------------------------------------------------- state

NoCall ==
    [op |-> "none", agent |-> DefaultAgent, arg |-> NoValue, ollama |-> "none",
     turso |-> "none", outcome |-> "ok", value |-> NoValue, embedCalls |-> 0,
     tursoCalls |-> 0]

\* The record of the call in progress: its arguments, what the two services
\* did (ollama, turso: none or the kind of the service's answer), the
\* exception raised ("ok" when none), the value returned, and the number of
\* requests made to each service.
Call(op, agent, arg, answer, kind, prep, fin) ==
    [op |-> op, agent |-> agent, arg |-> arg,
     ollama |-> IF prep.embedCalls = 0 THEN "none" ELSE answer,
     turso |-> IF prep.raised THEN "none" ELSE kind,
     outcome |-> IF prep.raised THEN prep.outcome ELSE fin.outcome,
     value |-> IF prep.raised THEN NoValue ELSE fin.value,
     embedCalls |-> prep.embedCalls,
     tursoCalls |-> IF prep.raised THEN 0 ELSE 1]

\* History of an id: the arguments of the store call that wrote it, and whether
\* its owner has since deleted it (the engine ran the INSERT of the store, the
\* DELETE of the delete, whether or not the answer reached the caller);
\* returned: the store call that wrote it returned normally.
NeverStored == [agent |-> "nobody", text |-> EmptyText, metadata |-> NoMeta,
                deleted |-> FALSE, returned |-> FALSE]

Init ==
    /\ memories = {}
    /\ nextId = 0
    /\ last = NoCall
    /\ stored = [i \in Ids |-> NeverStored]

Idle == last.op = "none"

\* ----------------------------------------------------------------- actions

\* The times a store call can have read when the engine takes its INSERT:
\* int(time.time()) is read before the INSERT is sent, and the INSERTs of
\* calls by other clients, which read an earlier or a later time, can be
\* taken before it, so the rows land in any order of their times.  Times are
\* counted from the earliest reading, one distinct reading for each id.
TimesRead == 0..(MaxId - 1)

\* LocalMemoryClient(agent_id).store(text, metadata), taken at the moment the
\* engine answers its INSERT.  uuid4 hands out an unused id.
Store(agent_id, text, metadata) ==
    /\ Idle
    /\ nextId < MaxId
    /\ \E answer \in OllamaKinds, timestamp \in TimesRead, kind \in TursoKinds :
         LET memory_id == nextId + 1
             prep == StorePrepare(agent_id, text, metadata, answer, memory_id,
                                  timestamp)
             ans == TursoExecute(prep.stmt, memories, kind, <<>>)
             fin == StoreFinish(text, memory_id, timestamp, ans)
         IN /\ memories' = IF prep.raised THEN memories ELSE ans.after
            /\ nextId' = IF prep.raised THEN nextId ELSE memory_id
            /\ last' = Call("store", agent_id,
                            [text |-> text, metadata |-> metadata],
                            answer, kind, prep, fin)
            /\ stored' = IF ~prep.raised /\ Applied(kind)
                         THEN [stored EXCEPT ![memory_id] =
                                 [agent |-> agent_id, text |-> text,
                                  metadata |-> metadata, deleted |-> FALSE,
                                  returned |-> fin.outcome = "ok"]]
                         ELSE stored

\* LocalMemoryClient(agent_id).search(query, limit, mode)
Search(agent_id, query, limit, mode) ==
    /\ Idle
    /\ \E answer \in OllamaKinds :
         LET prep == SearchPrepare(agent_id, query, limit, mode, answer)
         IN \E kind \in AnswerKinds(prep.stmt, memories) :
            \E rows \in SqlRows(prep.stmt, memories) :
              LET ans == TursoExecute(prep.stmt, memories, kind, rows)
                  fin == SearchFinish(agent_id, mode, ans)
              IN /\ last' = Call("search", agent_id,
                                 [query |-> query, limit |-> limit, mode |-> mode],
                                 answer, kind, prep, fin)
                 /\ UNCHANGED <<memories, nextId, stored>>

\* LocalMemoryClient(agent_id).get(memory_id)
Get(agent_id, memory_id) ==
    /\ Idle
    /\ \E kind \in TursoKinds :
         LET prep == Issue(SelectById(memory_id, agent_id), 0)
         IN \E rows \in SqlRows(prep.stmt, memories) :
              LET ans == TursoExecute(prep.stmt, memories, kind, rows)
                  fin == GetFinish(memory_id, ans)
              IN /\ last' = Call("get", agent_id, [id |-> memory_id],
                                 "up", kind, prep, fin)
                 /\ UNCHANGED <<memories, nextId, stored>>

\* LocalMemoryClient(agent_id).delete(memory_id)
Delete(agent_id, memory_id) ==
    /\ Idle
    /\ \E kind \in TursoKinds :
         LET prep == Issue(DeleteStatement(memory_id, agent_id), 0)
             ans == TursoExecute(prep.stmt, memories, kind, <<>>)
             fin == DeleteFinish(ans)
         IN /\ memories' = ans.after
            /\ last' = Call("delete", agent_id, [id |-> memory_id],
                            "up", kind, prep, fin)
            /\ stored' = IF Applied(kind) /\ stored[memory_id].agent = agent_id
                         THEN [stored EXCEPT ![memory_id].deleted = TRUE]
                         ELSE stored
            /\ UNCHANGED nextId

\* LocalMemoryClient(agent_id).get_related(memory_id)
GetRelated(agent_id, memory_id) ==
    /\ Idle
    /\ \E kind \in TursoKinds :
         LET prep == Issue(SelectEmbedding(memory_id, agent_id), 0)
         IN \E rows \in SqlRows(prep.stmt, memories) :
              LET ans == TursoExecute(prep.stmt, memories, kind, rows)
                  fin == GetRelatedFinish(memory_id, ans)
              IN /\ last' = Call("get_related", agent_id, [id |-> memory_id],
                                 "up", kind, prep, fin)
                 /\ UNCHANGED <<memories, nextId, stored>>

\* The call returns to its caller, which goes on to its next call.
Return ==
    /\ ~Idle
    /\ last.outcome # "running"
    /\ last' = NoCall
    /\ UNCHANGED <<memories, nextId, stored>>

Next ==
    \/ \E agent_id \in Agents : \E input \in StoreInputsOf(agent_id) :
         Store(agent_id, input[1], input[2])
    \/ \E agent_id \in Agents, input \in SearchInputs, limit \in Limits :
         Search(agent_id, input[1], limit, input[2])
    \/ \E agent_id \in Agents, memory_id \in Ids : Get(agent_id, memory_id)
    \/ \E agent_id \in Agents, memory_id \in Ids : Delete(agent_id, memory_id)
    \/ \E agent_id \in Agents, memory_id \in Ids : GetRelated(agent_id, memory_id)
    \/ Return

Spec == Init /\ [][Next]_vars

\* ------------------------------------------------------------ session runs

\* The (text, metadata) of the records a session may find in the table; the
\* record of SessionInputs[i] has id i.
SessionInputs ==
    << <<[s |-> "alpha", n |-> 5], MetaPreference>>,
       <<[s |-> "gamma", n |-> 5], MetaPreference>>,
       <<[s |-> "beta", n |-> 4], MetaBridge>>,
       <<[s |-> "beta", n |-> 4], MetaDecision>>,
       <<[s |-> "full", n |-> MaxTextLen], MetaDecision>>,
       <<[s |-> "delta", n |-> 5], NoMeta>> >>

\* The row store(input) wrote for the default agent under id memory_id.
SessionRow(memory_id, input) ==
    InsertStatement(memory_id, DefaultAgent, input[1], OllamaModel(input[1]),
                    MetaJson(input[2]), 0).row

\* The tables left by up to SessionMemories earlier store calls.
SessionTables ==
    { { SessionRow(i, SessionInputs[i]) : i \in chosen } :
        chosen \in { c \in SUBSET DOMAIN SessionInputs :
                       Cardinality(c) <= SessionMemories } }

InitSession ==
    /\ memories \in SessionTables
    /\ nextId = Len(SessionInputs)
    /\ last = NoCall
    /\ stored = [i \in Ids |-> NeverStored]

\* What the services may do during one retrieve_memories call, whose search
\* is search(query, limit, "vector") on the table mem.
RetrieveServices(query, limit, mem) ==
    UNION { LET prep == SearchPrepare(DefaultAgent, query, limit, "vector", answer)
            IN IF prep.raised THEN { Service(answer, "rows", <<>>) }
               ELSE { Service(answer, "rows", rows) :
                        rows \in IF "rows" \in AnswerKinds(prep.stmt, mem)
                                 THEN SqlRows(prep.stmt, mem) ELSE {} }
                    \cup { Service(answer, kind, <<>>) :
                             kind \in AnswerKinds(prep.stmt, mem) \ {"rows"} }
            : answer \in OllamaKinds }

\* Whether the services gave the search its embedding and its rows.
Answered(svc) == svc.ollama = "up" /\ svc.kind = "rows"

\* The results of a search, none when it raised.
ResultsOf(search) == IF search.outcome = "ok" THEN search.value.results ELSE <<>>

\* memory_integration.py:112-154  the next pass of initialize_session: its
\* retrieve_memories call, on the table as it is when the call's statement
\* runs, and after the fourth pass the digest (lines 156-159).  The record of
\* the session holds, for each pass run, whether the services answered, the
\* results of its search and what retrieve_memories returned; writes counts
\* the writes of other clients that landed meanwhile.  An exception leaving a
\* pass ends the session.
InitializePass ==
    /\ \/ Idle
       \/ last.op = "initialize" /\ last.outcome = "running"
    /\ LET ran == IF Idle THEN 0 ELSE Len(last.retrieved)
           pass == Passes[ran + 1]
       IN \E svc \in RetrieveServices(pass.query, pass.limit, memories) :
            LET search == SearchCall(DefaultAgent, pass.query, pass.limit,
                                     "vector", svc, memories)
                r == RetrieveMemories(search, pass.min_similarity)
                retrieved == IF Idle THEN <<r>> ELSE Append(last.retrieved, r)
                finished == ran + 1 = Len(Passes)
            IN last' = [op |-> "initialize", agent |-> DefaultAgent,
                        arg |-> NoValue,
                        answered |-> IF Idle THEN <<Answered(svc)>>
                                     ELSE Append(last.answered, Answered(svc)),
                        results |-> IF Idle THEN <<ResultsOf(search)>>
                                    ELSE Append(last.results, ResultsOf(search)),
                        retrieved |-> retrieved,
                        writes |-> IF Idle THEN 0 ELSE last.writes,
                        outcome |-> IF r.raised THEN "Exception"
                                    ELSE IF finished THEN "ok" ELSE "running",
                        value |-> IF ~r.raised /\ finished
                                  THEN Digest(ContextParts(retrieved))
                                  ELSE NoValue]
    /\ UNCHANGED <<memories, nextId, stored>>

\* A session is between two of its passes, and another write can land.
BetweenPasses ==
    /\ last.op = "initialize"
    /\ last.outcome = "running"
    /\ last.writes < MaxWrites

\* The INSERT of another client's store(SessionInputs[i]) lands between two
\* passes of the session.
ConcurrentStore(i) ==
    /\ BetweenPasses
    /\ SessionRow(i, SessionInputs[i]) \notin memories
    /\ Cardinality(memories) < SessionMemories
    /\ memories' = SqlEffect([q |-> "INSERT",
                              row |-> SessionRow(i, SessionInputs[i])], memories)
    /\ last' = [last EXCEPT !.writes = @ + 1]
    /\ UNCHANGED <<nextId, stored>>

\* The DELETE of another client's delete(i) lands between two passes.
ConcurrentDelete(i) ==
    /\ BetweenPasses
    /\ \E r \in memories : r.id = i
    /\ memories' = SqlEffect(DeleteStatement(i, DefaultAgent), memories)
    /\ last' = [last EXCEPT !.writes = @ + 1]
    /\ UNCHANGED <<nextId, stored>>

\* The (query, min_similarity) arguments retrieve_memories is called with:
\* min_similarity times 100, 70 being the default.
RetrieveInputs ==
    { <<Passes[1].query, 70>>, <<Passes[1].query, 80>>,
      <<Passes[2].query, 70>>, <<Passes[2].query, 80>>,
      <<EmptyText, 70>> }

\* retrieve_memories(query, min_similarity, limit)
Retrieve(query, min_similarity, limit) ==
    /\ Idle
    /\ \E svc \in RetrieveServices(query, limit, memories) :
         LET search == SearchCall(DefaultAgent, query, limit, "vector", svc,
                                  memories)
             retrieved == RetrieveMemories(search, min_similarity)
         IN last' = [op |-> "retrieve_memories", agent |-> DefaultAgent,
                     arg |-> [query |-> query, min_similarity |-> min_similarity,
                              limit |-> limit],
                     service |-> svc, search |-> search,
                     outcome |-> IF retrieved.raised THEN "Exception" ELSE "ok",
                     value |-> retrieved]
    /\ UNCHANGED <<memories, nextId, stored>>

NextSession ==
    \/ InitializePass
    \/ \E i \in DOMAIN SessionInputs : ConcurrentStore(i)
    \/ \E i \in DOMAIN SessionInputs : ConcurrentDelete(i)
    \/ \E input \in RetrieveInputs, limit \in Limits :
         Retrieve(input[1], input[2], limit)
    \/ Return

SpecSession == InitSession /\ [][NextSession]_vars

\* ---------------------------------------------------------- session closes

\* The (conversation_id, status, momentum, pending, retrieval_markers)
\* arguments close_session is called with.
CloseInputs ==
    { <<[s |-> "con_a1b2c3d4e5", n |-> 14, tail |-> "b2c3d4e5"],
        [s |-> "wip", n |-> 3], [s |-> "", n |-> 0], [s |-> "todo", n |-> 4],
        [s |-> "spec", n |-> 4]>>,
      <<[s |-> "conv-1", n |-> 6, tail |-> "conv-1"],
        [s |-> "huge", n |-> MaxTextLen], [s |-> "next", n |-> 4],
        [s |-> "none", n |-> 4], [s |-> "tla", n |-> 3]>> }

\* close_session(conversation_id, status, momentum, pending, retrieval_markers),
\* taken at the moment the engine answers the INSERT of its store.
CloseSession(conversation_id, status, momentum, pending, retrieval_markers) ==
    /\ Idle
    /\ nextId < MaxId
    /\ \E answer \in OllamaKinds, timestamp \in TimesRead, kind \in TursoKinds :
         LET memory_id == nextId + 1
             run == CloseSessionCall(conversation_id, status, momentum, pending,
                                     retrieval_markers, Service(answer, kind, <<>>),
                                     memory_id, timestamp, memories)
             prep == run.store.prep
         IN /\ memories' = run.store.after
            /\ nextId' = IF prep.raised THEN nextId ELSE memory_id
            /\ last' = [op |-> "close_session", agent |-> DefaultAgent,
                        arg |-> [text |-> run.text, metadata |-> run.metadata],
                        ollama |-> IF prep.embedCalls = 0 THEN "none" ELSE answer,
                        turso |-> IF prep.raised THEN "none" ELSE kind,
                        outcome |-> IF run.result.raised THEN "Exception" ELSE "ok",
                        value |-> run.result, store |-> run.store.outcome,
                        embedCalls |-> prep.embedCalls,
                        tursoCalls |-> IF prep.raised THEN 0 ELSE 1]
            /\ stored' = IF ~prep.raised /\ Applied(kind)
                         THEN [stored EXCEPT ![memory_id] =
                                 [agent |-> DefaultAgent, text |-> run.text,
                                  metadata |-> run.metadata, deleted |-> FALSE,
                                  returned |-> run.store.outcome = "ok"]]
                         ELSE stored

\* The (text, metadata) arguments store_memory is called with directly.
StoreMemoryInputs == { input \in StoreInputs : input[1].s \in {"alpha", "huge"} }

\* store_memory(text, metadata) called directly, as the command line's store
\* does, taken at the moment the engine answers the INSERT of its store.  The
\* call returns its dictionary whatever client.store did.
StoreMemoryDirect(text, metadata) ==
    /\ Idle
    /\ nextId < MaxId
    /\ \E answer \in OllamaKinds, timestamp \in TimesRead, kind \in TursoKinds :
         LET memory_id == nextId + 1
             store == StoreCall(DefaultAgent, text, metadata,
                                Service(answer, kind, <<>>), memory_id,
                                timestamp, memories)
             result == StoreMemory(store)
             prep == store.prep
         IN /\ memories' = store.after
            /\ nextId' = IF prep.raised THEN nextId ELSE memory_id
            /\ last' = [op |-> "store_memory", agent |-> DefaultAgent,
                        arg |-> [text |-> text, metadata |-> metadata],
                        ollama |-> IF prep.embedCalls = 0 THEN "none" ELSE answer,
                        turso |-> IF prep.raised THEN "none" ELSE kind,
                        outcome |-> IF result.raised THEN "Exception" ELSE "ok",
                        value |-> result, store |-> store.outcome,
                        embedCalls |-> prep.embedCalls,
                        tursoCalls |-> IF prep.raised THEN 0 ELSE 1]
            /\ stored' = IF ~prep.raised /\ Applied(kind)
                         THEN [stored EXCEPT ![memory_id] =
                                 [agent |-> DefaultAgent, text |-> text,
                                  metadata |-> metadata, deleted |-> FALSE,
                                  returned |-> store.outcome = "ok"]]
                         ELSE stored

\* Sessions close while records of another kind are stored, and records are
\* deleted.
NextClose ==
    \/ \E input \in StoreMemoryInputs : StoreMemoryDirect(input[1], input[2])
    \/ \E input \in CloseInputs :
         CloseSession(input[1], input[2], input[3], input[4], input[5])
    \/ \E memory_id \in Ids : Delete(DefaultAgent, memory_id)
    \/ Return

SpecClose == Init /\ [][NextClose]_vars

\* ------------------------------------------------------------------ claims

Results == last.value.results

SearchOk == last.op = "search" /\ last.outcome = "ok"

\* C1: every record a search returns (in any mode) was created under the
\* agent of the client that searched, and is a row of that agent in the table;
\* no record created under another agent is ever returned.
C1_SearchIsolation ==
    SearchOk =>
      \A i \in DOMAIN Results :
        /\ stored[Results[i].id].agent = last.agent
        /\ \E r \in memories : r.id = Results[i].id /\ r.agent_id = last.agent

\* A search that returned a record while another agent's record is in the table.
C1_Witness ==
    /\ SearchOk
    /\ Len(Results) >= 1
    /\ \E r \in memories : r.agent_id # last.agent

StoredOf(memory_id) == stored[memory_id]

StringKeyed(metadata) ==
    IsMapping(metadata) /\ \A i \in DOMAIN metadata.dict : metadata.dict[i].k[1] = "str"

GetOk == last.op = "get" /\ last.outcome = "ok"

RoundTrips ==
    /\ last.value.memory.text = StoredOf(last.arg.id).text
    /\ last.value.memory.metadata = StoredOf(last.arg.id).metadata

\* C2 as claimed: a get of an id returned by store(text, meta), meta any
\* mapping, returns text and meta.
C2_RoundTripAnyMapping ==
    (GetOk /\ IsMapping(StoredOf(last.arg.id).metadata)) => RoundTrips

\* C2 as amended: for a store of a text of at most 100,000 characters and a
\* metadata mapping whose keys are all strings, a get by the same agent of the
\* id store returned (the record not deleted, the store answering) succeeds
\* and returns that text and that metadata.
C2_RoundTripStringKeys ==
    /\ (GetOk /\ StringKeyed(StoredOf(last.arg.id).metadata)) => RoundTrips
    /\ ( /\ last.op = "get"
         /\ last.turso = "rows"
         /\ StoredOf(last.arg.id).agent = last.agent
         /\ ~StoredOf(last.arg.id).deleted ) => last.outcome = "ok"

\* A get that returned the record of a store with a non-empty metadata mapping.
C2_Witness ==
    /\ GetOk
    /\ StoredOf(last.arg.id).metadata = MetaPreference
    /\ last.value.memory.metadata = MetaPreference
    /\ last.value.memory.text = StoredOf(last.arg.id).text

\* C3: once delete(id) has succeeded for the agent owning id, a get(id) by that
\* agent never returns a memory, and fails with NotFound whenever the store
\* answers; an id the agent never owned is NotFound for it as well.
C3_DeleteThenGet ==
    last.op = "get" =>
      /\ ( StoredOf(last.arg.id).agent = last.agent
           /\ StoredOf(last.arg.id).deleted ) =>
             /\ last.outcome # "ok"
             /\ last.turso = "rows" => last.outcome = "NotFound"
      /\ StoredOf(last.arg.id).agent # last.agent =>
             /\ last.outcome # "ok"
             /\ last.turso = "rows" => last.outcome = "NotFound"

\* A get, answered by the store, of a record its owner stored and then deleted.
C3_Witness ==
    /\ last.op = "get"
    /\ StoredOf(last.arg.id).agent = last.agent
    /\ StoredOf(last.arg.id).deleted
    /\ last.turso = "rows"
    /\ last.outcome = "NotFound"

StoreTooLong(call) == call.op = "store" /\ PyLen(call.arg.text) > 100000

\* C4: store of a text longer than 100,000 characters raises ValueError
\* (InvalidArgument) without a request to Ollama or to Turso, and the step
\* leaves the table, and the ids handed out, unchanged.
C4_TooLongFailsFast ==
    /\ [](StoreTooLong(last) =>
            /\ last.outcome = "ValueError"
            /\ last.embedCalls = 0
            /\ last.tursoCalls = 0)
    /\ [][(last.op = "none" /\ StoreTooLong(last')) =>
            (memories' = memories /\ nextId' = nextId)]_vars

\* A store of 100,001 characters rejected while the table holds a record.
C4_Witness ==
    /\ StoreTooLong(last)
    /\ PyLen(last.arg.text) = 100001
    /\ last.outcome = "ValueError"
    /\ memories # {}

\* C5: a search with a mode outside vector/chronological/hybrid, or in vector
\* or hybrid mode with query None or "", raises ValueError (InvalidArgument)
\* without a request to Ollama or Turso; a chronological search with query
\* None succeeds when the store answers.
C5_SearchArguments ==
    last.op = "search" =>
      /\ ( \/ last.arg.mode \notin {"vector", "chronological", "hybrid"}
           \/ /\ last.arg.mode \in {"vector", "hybrid"}
              /\ (last.arg.query = PyNone \/ last.arg.query = EmptyText) ) =>
             /\ last.outcome = "ValueError"
             /\ last.embedCalls = 0
             /\ last.tursoCalls = 0
      /\ ( /\ last.arg.mode = "chronological"
           /\ last.arg.query = PyNone
           /\ last.turso = "rows" ) => last.outcome = "ok"

\* A hybrid search with an empty query, rejected.
C5_Witness ==
    /\ last.op = "search"
    /\ last.arg.mode = "hybrid"
    /\ last.arg.query = EmptyText
    /\ last.outcome = "ValueError"

\* The row of the table a search result shows.
RowOf(result) == CHOOSE r \in memories : r.id = result.id

IsAgentRow(result) ==
    \E r \in memories : r.id = result.id /\ r.agent_id = last.agent

Distinct(results) ==
    \A i, j \in DOMAIN results : i # j => results[i].id # results[j].id

\* C6: a chronological search makes no request to Ollama; when it succeeds it
\* returns at most limit distinct records of the agent, newest first
\* (created_at never increases along the list), each with similarity 1.0; when
\* the store answers, it returns min(limit, number of the agent's records).
C6_Chronological ==
    (last.op = "search" /\ last.arg.mode = "chronological") =>
      /\ last.embedCalls = 0
      /\ last.outcome = "ok" =>
           /\ Len(Results) <= last.arg.limit
           /\ Distinct(Results)
           /\ \A i \in DOMAIN Results :
                /\ IsAgentRow(Results[i])
                /\ Results[i].created_at.iso = RowOf(Results[i]).created_at
                /\ Results[i].similarity = 100
           /\ \A i, j \in DOMAIN Results :
                i < j => Results[i].created_at.iso >= Results[j].created_at.iso
           /\ last.turso = "rows" =>
                Len(Results) = Min(last.arg.limit,
                                   Cardinality(AgentRows(memories, last.agent)))

\* A chronological search that returned two records created at different times.
C6_Witness ==
    /\ SearchOk
    /\ last.arg.mode = "chronological"
    /\ Len(Results) = 2
    /\ Results[1].created_at.iso > Results[2].created_at.iso

DistanceTo(query, result) ==
    VectorDistanceCos(RowOf(result).embedding, OllamaModel(query))

\* C7: a vector search, and a hybrid search alike, when it succeeds returns at
\* most limit distinct records of the agent, nearest first (distance to the
\* query embedding never decreases along the list), none farther than a
\* record left out, each with similarity 1 - distance, negative values kept;
\* when the store answers, it returns min(limit, number of the agent's records).
C7_VectorAndHybrid ==
    (SearchOk /\ last.arg.mode \in {"vector", "hybrid"}) =>
      /\ Len(Results) <= last.arg.limit
      /\ Distinct(Results)
      /\ \A i \in DOMAIN Results :
           /\ IsAgentRow(Results[i])
           /\ Results[i].similarity = 100 - DistanceTo(last.arg.query, Results[i])
      /\ \A i, j \in DOMAIN Results :
           i < j => /\ DistanceTo(last.arg.query, Results[i])
                         <= DistanceTo(last.arg.query, Results[j])
                    /\ Results[i].similarity >= Results[j].similarity
      /\ \A r \in AgentRows(memories, last.agent) :
           (\A i \in DOMAIN Results : Results[i].id # r.id) =>
             \A i \in DOMAIN Results :
               DistanceTo(last.arg.query, Results[i])
                 <= VectorDistanceCos(r.embedding, OllamaModel(last.arg.query))
      /\ last.turso = "rows" =>
           Len(Results) = Min(last.arg.limit,
                              Cardinality(AgentRows(memories, last.agent)))

\* A hybrid search that ranked two records, the second with negative similarity.
C7_Witness ==
    /\ SearchOk
    /\ last.arg.mode = "hybrid"
    /\ Len(Results) = 2
    /\ Results[1].similarity > Results[2].similarity
    /\ Results[2].similarity < 0

\* The four section headings, in the order of the categories: bridges,
\* preferences, projects, observations.
SectionHeadings ==
    << "## Recent Session Context\n", "## User Preferences & Patterns\n",
       "## Active Projects\n", "## Cognitive Patterns\n" >>

SessionDone == last.op = "initialize" /\ last.outcome # "running"

\* The ids of the results of pass i's search that clear the pass's threshold.
ClearedIds(i) ==
    LET res == last.results[i]
        hit == SelectSeq(res, LAMBDA m : m.similarity >= Passes[i].min_similarity)
    IN [k \in DOMAIN hit |-> hit[k].id]

NonEmptyPasses == { i \in PassIndex : Len(ClearedIds(i)) > 0 }

\* Where category i's heading stands in the digest.
SectionStart(i) == 2 * Cardinality({ j \in NonEmptyPasses : j < i }) + 1

EntryIds(part) == [k \in DOMAIN part.entries |-> part.entries[k].id]

\* The ids listed under heading h in the digest.
ListedUnder(h) ==
    UNION { Range(EntryIds(last.value[k + 1])) :
              k \in { n \in DOMAIN last.value : last.value[n].text = h } }

\* C8: the digest of initialize_session holds, for exactly the passes with at
\* least one result clearing the threshold and in the order bridges,
\* preferences, projects, observations, the category's heading followed by
\* those results; when no pass has such a result it is the fresh-start
\* sentinel.
C8_DigestSections ==
    (SessionDone /\ last.outcome = "ok") =>
      IF NonEmptyPasses = {}
      THEN /\ Len(last.value) = 1
           /\ last.value[1].kind = "sentinel"
           /\ last.value[1].text = "No initialization memories found. Fresh start."
      ELSE /\ Len(last.value) = 2 * Cardinality(NonEmptyPasses)
           /\ \A i \in NonEmptyPasses :
                /\ last.value[SectionStart(i)].kind = "heading"
                /\ last.value[SectionStart(i)].text = SectionHeadings[i]
                /\ last.value[SectionStart(i) + 1].kind = "memories"
                /\ EntryIds(last.value[SectionStart(i) + 1]) = ClearedIds(i)

\* A digest of two sections, the first and the last category, the two between
\* them having no result that clears the threshold.
C8_Witness ==
    /\ SessionDone
    /\ last.outcome = "ok"
    /\ NonEmptyPasses = {1, 4}
    /\ Len(last.value) = 4
    /\ last.value[1].text = "## Recent Session Context\n"
    /\ last.value[3].text = "## Cognitive Patterns\n"

ContextTypeOfRow(r) == ContextType(JsonLoads(r.metadata))

IdsOfType(type) == { r.id : r \in { m \in memories : ContextTypeOfRow(m) = type } }

\* The scenario: three memories of the default agent, one preference, one
\* decision and one conversation bridge, and a session whose four passes were
\* all answered, no other client writing meanwhile.
ThreeMemoriesScenario ==
    /\ SessionDone
    /\ last.outcome = "ok"
    /\ \A i \in PassIndex : last.answered[i]
    /\ last.writes = 0
    /\ Cardinality(memories) = 3
    /\ \A type \in {"preference", "decision", "conversation_bridge"} :
         Cardinality(IdsOfType(type)) = 1

\* C9: in the scenario the bridge is listed under "Recent Session Context",
\* the preference under "User Preferences & Patterns", and no memory is
\* listed under more than one section.
C9_OneSectionPerMemory ==
    ThreeMemoriesScenario =>
      /\ IdsOfType("conversation_bridge") \subseteq ListedUnder(SectionHeadings[1])
      /\ IdsOfType("preference") \subseteq ListedUnder(SectionHeadings[2])
      /\ \A g, h \in Range(SectionHeadings) :
           g # h => ListedUnder(g) \cap ListedUnder(h) = {}

\* The search of pass i raised.
PassFailed(i) == last.retrieved[i].error

\* C10: initialize_session never raises; every one of its four passes runs,
\* whichever of them failed; a failed pass yields no result and no section;
\* the value returned is a digest or the fresh-start sentinel.
C10_FailedPassIsEmpty ==
    SessionDone =>
      /\ last.outcome = "ok"
      /\ Len(last.retrieved) = Len(Passes)
      /\ Len(last.value) >= 1
      /\ \A i \in PassIndex :
           PassFailed(i) =>
             /\ ~last.retrieved[i].found
             /\ last.retrieved[i].memories = <<>>
             /\ \A k \in DOMAIN last.value : last.value[k].text # SectionHeadings[i]

\* A session whose first pass failed and whose second still gave a section.
C10_Witness ==
    /\ SessionDone
    /\ last.outcome = "ok"
    /\ PassFailed(1)
    /\ last.value[1].text = "## User Preferences & Patterns\n"

\* A close_session that reported success on an answer of the store that
\* carries the result of its INSERT.
CloseOk(call) ==
    /\ call.op = "close_session"
    /\ call.outcome = "ok"
    /\ call.value.success
    /\ call.turso = "rows"

IsBridge(metadata) ==
    IsMapping(metadata) /\ ContextType(metadata) = "conversation_bridge"

\* The bridge records of the table.
BridgeRows == { r \in memories : IsBridge(RowMeta(r.metadata)) }

\* The ids of the records the store wrote for close_session calls (store is
\* never called with a conversation_bridge here, so these are close_session's).
ClosedIds == { i \in Ids : stored[i].agent # "nobody" /\ IsBridge(stored[i].metadata) }

\* Those of them whose close_session call reported success.
SucceededIds == { i \in ClosedIds : stored[i].returned }

NoDeletes == \A i \in Ids : ~stored[i].deleted

\* A successful close_session adds exactly one record, a conversation_bridge
\* holding the text it built, and leaves every other record as it was.
CloseAddsOneRecord ==
    (last.op = "none" /\ CloseOk(last')) =>
        \E r \in memories' \ memories :
           /\ memories' = memories \cup {r}
           /\ Cardinality(memories') = Cardinality(memories) + 1
           /\ r.id \notin { m.id : m \in memories }
           /\ r.agent_id = DefaultAgent
           /\ r.content = last'.arg.text
           /\ IsBridge(RowMeta(r.metadata))
           /\ BridgeRows' = BridgeRows \cup {r}

\* C11: a successful close_session adds exactly one new record, a
\* conversation_bridge holding the text it built, and leaves every record
\* that was in the table (prior bridges included) present and unchanged;
\* while no record has been deleted, the table holds as many bridge records
\* as there were successful close_session calls.
C11_CloseAddsOneBridge ==
    /\ [](NoDeletes => Cardinality(BridgeRows) = Cardinality(SucceededIds))
    /\ [][CloseAddsOneRecord]_vars

\* C11 as amended: a successful close_session adds exactly one new record, a
\* conversation_bridge, and leaves every other record as it was; while no
\* record has been deleted, the table holds one bridge record for every
\* close_session call whose INSERT the store ran: one for each successful
\* call, and one for each call reported failed because the answer to its
\* INSERT did not arrive.
C11_BridgePerInsertRun ==
    /\ [](NoDeletes =>
            /\ Cardinality(BridgeRows) = Cardinality(ClosedIds)
            /\ Cardinality(BridgeRows) >= Cardinality(SucceededIds)
            /\ \A i \in ClosedIds \ SucceededIds :
                 \E r \in BridgeRows : r.id = i /\ r.content = stored[i].text)
    /\ [][CloseAddsOneRecord]_vars

\* A successful close_session after one reported failed whose INSERT the
\* store had run: both bridges are in the table.
C11_Witness ==
    /\ CloseOk(last)
    /\ Cardinality(BridgeRows) = 2
    /\ Cardinality(ClosedIds) = 2
    /\ Cardinality(SucceededIds) = 1
    /\ NoDeletes

\* The write of the close_session in progress failed: the text was too long,
\* the embedding gateway failed, the store could not be reached, or the store
\* reported an error.
CloseWriteFailed ==
    /\ last.op = "close_session"
    /\ last.store \in {"ValueError", "OllamaError", "TursoExecError",
                       "TursoStoreError"}

\* C12: when the write of close_session fails (text too long, embedding
\* error, store transport error, store-reported error), close_session raises
\* nothing and returns a result with success false and the error; the table
\* is as it was unless the store ran the INSERT and its answer was lost.
C12_CloseFailureIsStructured ==
    /\ [](CloseWriteFailed =>
            /\ last.outcome = "ok"
            /\ ~last.value.raised
            /\ ~last.value.success
            /\ last.value.error = last.store)
    /\ [](last.op = "close_session" =>
            /\ last.outcome = "ok"
            /\ last.value.success = (last.store = "ok")
            /\ (last.arg.text.n > MaxTextLen => last.store = "ValueError")
            /\ (last.ollama = "down" => last.store = "OllamaError")
            /\ (last.turso \in {"unavailable", "lost"} =>
                  last.store = "TursoExecError")
            /\ (last.turso = "error" => last.store = "TursoStoreError"))
    /\ [][(last.op = "none" /\ CloseWriteFailed' /\ last'.turso # "lost") =>
            memories' = memories]_vars

\* A close_session whose INSERT the store rejected, after an earlier record.
C12_Witness ==
    /\ CloseWriteFailed
    /\ last.store = "TursoStoreError"
    /\ last.value.error = "TursoStoreError"
    /\ ~last.value.success
    /\ memories # {}

\* The record with this id under this agent, if the table has one.
OwnRows(agent_id, memory_id) ==
    { r \in memories : r.id = memory_id /\ r.agent_id = agent_id }

GetRelatedDone == last.op = "get_related"

\* C13: get_related never returns a result set and makes no search (no
\* embedding request, no statement but the lookup of the id); when the store
\* answers the lookup, an id the caller's agent holds fails with the
\* not-implemented failure (FeatureUnavailable) and an id it does not hold
\* fails with the not-found failure.
C13_GetRelatedFailsClosed ==
    GetRelatedDone =>
        /\ last.outcome # "ok"
        /\ last.value = NoValue
        /\ last.embedCalls = 0
        /\ last.tursoCalls = 1
        /\ (last.turso = "rows" =>
              /\ (OwnRows(last.agent, last.arg.id) # {}
                    => last.outcome = "NotImplementedError")
              /\ (OwnRows(last.agent, last.arg.id) = {}
                    => last.outcome = "NotFound"))

\* get_related on an id the caller holds, the other agent holding a record too.
C13_Witness ==
    /\ GetRelatedDone
    /\ last.turso = "rows"
    /\ OwnRows(last.agent, last.arg.id) # {}
    /\ last.outcome = "NotImplementedError"
    /\ \E r \in memories : r.agent_id # last.agent

\* The delete in progress was answered by the store (no transport failure, no
\* store-reported error).
DeleteAnswered(call) ==
    call.op = "delete" /\ call.turso \notin {"error", "unavailable", "lost"}

\* C14: delete(id) by an agent that holds no record with that id (never
\* stored, already deleted, or held by another agent) returns normally and
\* leaves the whole table as it was, the other agent's records included; after
\* any delete the agent holds no record with the id, so the same delete again
\* changes nothing.
C14_DeleteOfAbsentIsNoOp ==
    /\ [][(last.op = "none" /\ DeleteAnswered(last')) => last'.outcome = "ok"]_vars
    /\ [][(last.op = "none" /\ last'.op = "delete") =>
            /\ ({ r \in memories : r.id = last'.arg.id /\ r.agent_id = last'.agent } = {}
                  => memories' = memories)
            /\ \A r \in memories : r.agent_id # last'.agent => r \in memories'
            /\ memories' \subseteq memories]_vars
    /\ []((last.op = "delete" /\ Applied(last.turso)) =>
            /\ OwnRows(last.agent, last.arg.id) = {}
            /\ SqlEffect(DeleteStatement(last.arg.id, last.agent), memories)
                 = memories)

\* A delete of an id that another agent holds: it returned normally and the
\* other agent's record is still in the table.
C14_Witness ==
    /\ last.op = "delete"
    /\ last.turso = "rows"
    /\ last.outcome = "ok"
    /\ stored[last.arg.id].agent \notin {"nobody", last.agent}
    /\ ~stored[last.arg.id].deleted
    /\ \E r \in memories : r.id = last.arg.id /\ r.agent_id # last.agent

\* The retrieve_memories in progress got the rows of its search from the store.
RetrieveAnswered ==
    /\ last.op = "retrieve_memories"
    /\ last.search.outcome = "ok"
    /\ last.service.kind = "rows"

\* Similarity (times 100) of a row of the table to a query.
SimilarityTo(query, r) == 100 - VectorDistanceCos(r.embedding, OllamaModel(query))

\* The sets of rows that are the limit nearest to the query among the agent's
\* rows (more than one set when distances tie at the cut).
TopLimit(query, limit) ==
    LET A == AgentRows(memories, DefaultAgent)
    IN { T \in SUBSET A :
           /\ Cardinality(T) = Min(limit, Cardinality(A))
           /\ \A r \in T : \A q \in A \ T :
                SimilarityTo(query, r) >= SimilarityTo(query, q) }

\* C15: retrieve_memories returns exactly the records of the top limit by
\* ascending distance whose similarity is at least min_similarity, nearest
\* first, and reports found exactly when there is one; the limit is applied
\* first, so a record that clears the threshold but is not in the top limit
\* is not returned, and the result can be empty while the agent has records.
C15_LimitBeforeThreshold ==
    RetrieveAnswered =>
        LET query == last.arg.query
            mems == last.value.memories
        IN /\ last.outcome = "ok"
           /\ last.value.found = (Len(mems) > 0)
           /\ Distinct(mems)
           /\ \E T \in TopLimit(query, last.arg.limit) :
                /\ { mems[i].id : i \in DOMAIN mems }
                     = { r.id : r \in { t \in T : SimilarityTo(query, t)
                                                   >= last.arg.min_similarity } }
                /\ last.value.found =
                     (\E t \in T : SimilarityTo(query, t) >= last.arg.min_similarity)
           /\ \A i \in DOMAIN mems :
                /\ mems[i].similarity = SimilarityTo(query, RowOf(mems[i]))
                /\ mems[i].similarity >= last.arg.min_similarity
           /\ \A i, j \in DOMAIN mems :
                i < j => mems[i].similarity >= mems[j].similarity

\* limit 1 returned the nearest record and left out a second record whose
\* similarity is exactly the threshold.
C15_Witness ==
    /\ RetrieveAnswered
    /\ last.arg.limit = 1
    /\ last.value.found
    /\ Len(last.value.memories) = 1
    /\ \E r \in AgentRows(memories, DefaultAgent) :
         /\ r.id # last.value.memories[1].id
         /\ SimilarityTo(last.arg.query, r) = last.arg.min_similarity

\* No record in the top limit clears the threshold although the agent has records.
C15_WitnessEmpty ==
    /\ RetrieveAnswered
    /\ ~last.value.found
    /\ memories # {}

\* The store's answer to the statement of the call in progress lacks an
\* expected field: it has no entry for the statement, or the entry has
\* neither results/rows nor error.
MalformedAnswer ==
    /\ last.op \in {"store", "search", "get", "delete", "get_related"}
    /\ last.turso \in {"empty", "nofield"}

\* C16: when the store's response lacks an expected field, the operation
\* fails with a protocol failure: it does not return normally (a write
\* reported as done, an empty result list) and does not fail as not-found.
\* Any failure other than not-found is accepted here as the protocol failure.
C16_MalformedIsProtocolError ==
    MalformedAnswer => last.outcome \notin {"ok", "NotFound"}

\* C17: in store the embedding request comes before the INSERT: every record
\* of the table carries the embedding Ollama returned for its own text, which
\* is not null and has the dimension of every other; a store that issued its
\* INSERT made one successful embedding request first, and a store whose
\* embedding request failed issued no statement and left the table as it was.
C17_EmbedPrecedesInsert ==
    /\ [](\A r \in memories :
            /\ r.embedding = OllamaModel(r.content)
            /\ r.embedding # NoneValue
            /\ \A q \in memories : Len(q.embedding.items) = Len(r.embedding.items))
    /\ [](last.op = "store" =>
            /\ (last.tursoCalls = 1 => last.embedCalls = 1 /\ last.ollama = "up")
            /\ (last.ollama = "down" =>
                  /\ last.tursoCalls = 0
                  /\ last.turso = "none"
                  /\ last.outcome = "OllamaError"))
    /\ [][(last.op = "none" /\ last'.op = "store" /\ last'.ollama = "down") =>
            (memories' = memories /\ nextId' = nextId)]_vars

====
